---- MODULE Spec2Model ----
(***************************************************************************)
(* A model of conceptnet5/wiktparse/rules.py: the semantic tree walker     *)
(* that turns structured Wiktionary entries into ConceptNet edges.         *)
(*                                                                         *)
(* Representation of Python values                                         *)
(*   str        a sequence of tokens (substrings): 'Etymology 1' is        *)
(*              <<"Etymology", " 1">>, '~IsA' is <<"~", "IsA">>; s + t is  *)
(*              s \o t and '' is << >>.  Tokens are cut where the code     *)
(*              cuts strings ("~", "#", "-", " ", digits, letters), so     *)
(*              equal strings have equal token sequences.                  *)
(*   None       the reserved one-token sequence None.                      *)
(*   list       a sequence;  dict  a function;  an object  a record.       *)
(*   exception  an operator that can raise returns [raised, ...].          *)
(***************************************************************************)
EXTENDS Integers, Sequences, FiniteSets, TLC

S(tok) == <<tok>>

None == <<"None">>

\* Python truthiness of an Optional[str]: None and '' are false.
Truthy(v) == v # None /\ v # << >>

\* a or b
Or(a, b) == IF Truthy(a) THEN a ELSE b

\* s.startswith(prefix)
StartsWith(s, prefix) ==
    /\ s # None
    /\ Len(s) >= Len(prefix)
    /\ SubSeq(s, 1, Len(prefix)) = prefix

Whitespace == {" ", "\n"}

RECURSIVE LStripSet(_, _)
\* s.lstrip(chars): drop the leading tokens made of the given characters.
LStripSet(s, toks) ==
    IF s = << >> THEN << >>
    ELSE IF Head(s) \in toks THEN LStripSet(Tail(s), toks)
    ELSE s

RECURSIVE RStripSet(_, _)
\* s.rstrip(chars)
RStripSet(s, toks) ==
    IF s = << >> THEN << >>
    ELSE IF s[Len(s)] \in toks THEN RStripSet(SubSeq(s, 1, Len(s) - 1), toks)
    ELSE s

\* s.strip()
Strip(s) == RStripSet(LStripSet(s, Whitespace), Whitespace)

\* str.lower() on one token (the capitalised tokens of the modelled words).
LowerTok(tok) ==
    CASE tok = "Hund" -> "hund"
      [] tok = "Tier" -> "tier"
      [] tok = "Bark" -> "bark"
      [] OTHER -> tok

\* s.lower()
Lower(s) == [k \in 1..Len(s) |-> LowerTok(s[k])]

RECURSIVE Flatten(_)
\* sum(list_of_lists, [])
Flatten(ll) == IF ll = << >> THEN << >> ELSE Head(ll) \o Flatten(Tail(ll))

(***************************************************************************)
(* Module-level tables                                                     *)
(***************************************************************************)
POS_HEADINGS ==
    S("en") :> ( S("Noun") :> S("n") @@ <<"Proper", " ", "noun">> :> S("n")
              @@ S("Verb") :> S("v") @@ S("Adjective") :> S("a")
              @@ S("Adverb") :> S("r") )
 @@ S("de") :> ( S("Substantiv") :> S("n") @@ S("Eigenname") :> S("n")
              @@ S("Nachname") :> S("n") @@ S("Vorname") :> S("n")
              @@ S("Toponym") :> S("n") @@ S("Verb") :> S("v")
              @@ S("Adjektiv") :> S("a") @@ S("Adverb") :> S("r") )

SKIPPED_LANGUAGES ==
    << S("Lojban"), S("Translingual"), <<"American", " ", "Sign", " ", "Language">> >>

RULES_AND_RELATIONS_MAP ==
    S("en") :> (
        S("Translations") :> <<S("translation_section"), None>>
     @@ S("Synonyms") :> <<S("link_section"), S("Synonym")>>
     @@ S("Antonyms") :> <<S("link_section"), S("Antonym")>>
     @@ S("Hypernyms") :> <<S("link_section"), S("IsA")>>
     @@ S("Hyponyms") :> <<S("link_section"), <<"~", "IsA">> >>
     @@ S("Holonyms") :> <<S("link_section"), S("PartOf")>>
     @@ S("Meronyms") :> <<S("link_section"), S("PartOf")>>
     @@ <<"Derived", " ", "terms">> :> <<S("link_section"), <<"~", "DerivedFrom">> >>
     @@ S("Descendants") :> <<S("link_section"), <<"~", "DerivedFrom">> >>
     @@ S("Compounds") :> <<S("link_section"), <<"~", "CompoundDerivedFrom">> >>
     @@ <<"Related", " ", "terms">> :> <<S("link_section"), S("RelatedTo")>>
     @@ <<"See", " ", "also">> :> <<S("link_section"), S("RelatedTo")>>
     @@ S("Pronunciation") :> <<None, None>>
     @@ S("Anagrams") :> <<None, None>>
     @@ S("Statistics") :> <<None, None>>
     @@ S("References") :> <<None, None>>
     @@ S("Quotations") :> <<None, None>>
     @@ S("Romanization") :> <<None, None>>
     @@ <<"Usage", " ", "notes">> :> <<None, None>> )
 @@ S("de") :> (
        S("Bedeutungen") :> <<S("definition_section_de"), None>>
     @@ S("Übersetzungen") :> <<S("translation_section_de"), None>>
     @@ S("Herkunft") :> <<S("etymology_section"), S("EtymologicallyDerivedFrom")>>
     @@ S("Ähnlichkeiten") :> <<S("link_section"), S("RelatedTo")>>
     @@ <<"Sinnverwandte", " ", "Wörter">> :> <<S("link_section"), S("RelatedTo")>>
     @@ S("Gegenwörter") :> <<S("link_section"), S("Antonym")>>
     @@ S("Synonyme") :> <<S("link_section"), S("Synonym")>>
     @@ S("Oberbegriffe") :> <<S("link_section"), S("IsA")>>
     @@ S("Unterbegriffe") :> <<S("link_section"), <<"~", "IsA">> >>
     @@ S("Wortbildungen") :> <<S("link_section"), <<"~", "DerivedFrom">> >> )

\* conceptnet5.util.language_codes.ENGLISH_NAME_TO_CODE, on the modelled names
ENGLISH_NAME_TO_CODE ==
    S("English") :> S("en") @@ S("German") :> S("de") @@ S("French") :> S("fr")
 @@ S("Lojban") :> S("jbo") @@ S("Translingual") :> S("mul")
 @@ <<"American", " ", "Sign", " ", "Language">> :> S("ase")

\* dict.get(key, default)
Get(d, key, default) == IF key \in DOMAIN d THEN d[key] ELSE default

language_code(language_name) == Get(ENGLISH_NAME_TO_CODE, language_name, None)

\* conceptnet5.uri.BAD_NAMES_FOR_THINGS
BAD_NAMES_FOR_THINGS == { S("it"), S("something"), S("thing") }

(***************************************************************************)
(* LinkedText and EdgeInfo                                                 *)
(***************************************************************************)
\* isinstance(v, EdgeInfo) for an object v: LinkedText has text and links,
\* EdgeInfo has language, target, sense and rel.
IsEdgeInfo(v) == "target" \in DOMAIN v

\* LinkedText.__init__ with a str (or None) text
LinkedText(text, links) == [text |-> text, links |-> links]

\* LinkedText.__init__ with a LinkedText as its text
LinkedTextOfLinked(lt, links) == [text |-> lt.text, links |-> lt.links \o links]

\* LinkedText.__add__
LinkedTextAdd(a, b) == LinkedText(a.text \o S(" ") \o b.text, a.links \o b.links)

\* EdgeInfo.__init__ ; callers check EdgeInfoRaises first
EdgeInfo(language, target, sense, rel) ==
    [language |-> language, target |-> target, sense |-> sense, rel |-> rel]

EdgeInfoRaises(target) == target = None

set_language(ei, language) == EdgeInfo(language, ei.target, ei.sense, ei.rel)

set_default_language(ei, language) ==
    IF Truthy(ei.language) THEN ei
    ELSE EdgeInfo(language, ei.target, ei.sense, ei.rel)

set_target(ei, target) == EdgeInfo(ei.language, target, ei.sense, ei.rel)

set_sense(ei, sense) == EdgeInfo(ei.language, ei.target, sense, ei.rel)

set_rel(ei, rel) == EdgeInfo(ei.language, ei.target, ei.sense, rel)

\* conceptnet5.nodes.normalized_concept_uri: /c/<lang>/<word>[/<pos>[/<sense>]]
normalized_concept_uri(lang, text, pos, sense) ==
    << S("c"), lang, Lower(Strip(text)) >>
    \o (IF pos = None THEN << >>
        ELSE <<pos>> \o (IF sense = None THEN << >> ELSE <<sense>>))

\* conceptnet5.uri.join_uri
join_uri(prefix, piece) == <<prefix, piece>>

\* conceptnet5.edges.make_edge
make_edge(rel, start, end, dataset, license, sources, weight) ==
    [rel |-> rel, start |-> start, end |-> end, dataset |-> dataset,
     license |-> license, sources |-> sources, weight |-> weight]

\* a variant that strips the "~" but leaves the endpoints as they are
complete_edge_no_swap(ei, rule_name, headlang, headword, headpos) ==
    LET sense0 == IF headpos = None THEN None ELSE ei.sense
        sense == IF sense0 \in BAD_NAMES_FOR_THINGS THEN None ELSE sense0
        start_uri == normalized_concept_uri(headlang, headword, headpos, sense)
        end_uri == normalized_concept_uri(ei.language, ei.target, None, None)
        rel0 == Or(ei.rel, S("RelatedTo"))
        rel == IF StartsWith(rel0, S("~")) THEN Tail(rel0) ELSE rel0
    IN  make_edge(join_uri(S("r"), rel), start_uri, end_uri,
                  <<S("d"), S("wiktionary"), S("en"), headlang>>,
                  S("cc_sharealike"),
                  << join_uri(S("s/web/en.wiktionary.org/wiki"), headword),
                     join_uri(S("s/rule"), rule_name) >>,
                  1)

\* EdgeInfo.complete_edge
complete_edge(ei, rule_name, headlang, headword, headpos) ==
    LET sense0 == IF headpos = None THEN None ELSE ei.sense
        sense == IF sense0 \in BAD_NAMES_FOR_THINGS THEN None ELSE sense0
        start_uri == normalized_concept_uri(headlang, headword, headpos, sense)
        end_uri == normalized_concept_uri(ei.language, ei.target, None, None)
        rel0 == Or(ei.rel, S("RelatedTo"))
        inverted == StartsWith(rel0, S("~"))
        rel == IF inverted THEN Tail(rel0) ELSE rel0
    IN  make_edge(join_uri(S("r"), rel),
                  IF inverted THEN end_uri ELSE start_uri,
                  IF inverted THEN start_uri ELSE end_uri,
                  <<S("d"), S("wiktionary"), S("en"), headlang>>,
                  S("cc_sharealike"),
                  << join_uri(S("s/web/en.wiktionary.org/wiki"), headword),
                     join_uri(S("s/rule"), rule_name) >>,
                  1)

(***************************************************************************)
(* Heading dispatcher                                                      *)
(***************************************************************************)
\* a variant whose English default has the rule and the relation swapped
get_rule_for_heading_swapped_default(default_language, heading) ==
    IF default_language \notin DOMAIN RULES_AND_RELATIONS_MAP
    THEN <<None, None>>
    ELSE IF default_language = S("en") /\ StartsWith(heading, S("Etymology"))
    THEN <<S("etymology_section"), S("EtymologicallyDerivedFrom")>>
    ELSE Get(RULES_AND_RELATIONS_MAP[default_language], heading,
             IF default_language = S("en")
             THEN <<None, S("definition_section")>>
             ELSE <<None, None>>)

\* a variant that tests the heading for equality with 'Etymology'
get_rule_for_heading_exact_etymology(default_language, heading) ==
    IF default_language \notin DOMAIN RULES_AND_RELATIONS_MAP
    THEN <<None, None>>
    ELSE IF default_language = S("en") /\ heading = S("Etymology")
    THEN <<S("etymology_section"), S("EtymologicallyDerivedFrom")>>
    ELSE Get(RULES_AND_RELATIONS_MAP[default_language], heading,
             IF default_language = S("en")
             THEN <<S("definition_section"), None>>
             ELSE <<None, None>>)

\* ConceptNetWiktionarySemantics._get_rule_for_heading
_get_rule_for_heading(default_language, heading) ==
    IF default_language \notin DOMAIN RULES_AND_RELATIONS_MAP
    THEN <<None, None>>
    ELSE IF default_language = S("en") /\ StartsWith(heading, S("Etymology"))
    THEN <<S("etymology_section"), S("EtymologicallyDerivedFrom")>>
    ELSE Get(RULES_AND_RELATIONS_MAP[default_language], heading,
             IF default_language = S("en")
             THEN <<S("definition_section"), None>>
             ELSE <<None, None>>)

(***************************************************************************)
(* The parsed form of a section text.                                      *)
(*                                                                         *)
(* The grammar (the "Parse rule" docstrings) cuts a text into lines and    *)
(* each line into nodes; the semantic methods below are applied to them.   *)
(*   text  [fails, lines]   fails: the grammar rejects the text            *)
(*   line  [num, sense, items]                                             *)
(*   node  [kind |-> "wiki_link", site, target, text]                      *)
(*         [kind |-> "link_template", linktype, subtypes, args]            *)
(*         [kind |-> "etyl", language, link]                               *)
(*         [kind |-> "translation_template", language, args]               *)
(*         [kind |-> "text", text]                                         *)
(* A Python value whose type the code tests is tagged: [type, v].          *)
(***************************************************************************)
PyNone == [type |-> "None"]

PyStr(v) == [type |-> "str", v |-> v]

PyLinked(v) == [type |-> "LinkedText", v |-> v]

PyDict == [type |-> "dict"]

RECURSIVE JoinTexts(_)
JoinTexts(lst) ==
    IF lst = << >> THEN << >>
    ELSE LET item == Head(lst) IN
         (CASE item.type = "str" -> item.v
            [] item.type = "LinkedText" ->
                  IF item.v.text # None THEN item.v.text ELSE << >>
            [] OTHER -> << >>)
         \o JoinTexts(Tail(lst))

RECURSIVE JoinLinks(_)
JoinLinks(lst) ==
    IF lst = << >> THEN << >>
    ELSE LET item == Head(lst) IN
         (IF item.type = "LinkedText" THEN item.v.links ELSE << >>)
         \o JoinLinks(Tail(lst))

\* join_text on a list (a None list returns None at the call site)
join_text(lst) ==
    IF \E k \in 1..Len(lst) : lst[k].type \notin {"None", "str", "LinkedText", "dict"}
    THEN [raised |-> TRUE, value |-> LinkedText(<< >>, << >>)]
    ELSE [raised |-> FALSE, value |-> LinkedText(JoinTexts(lst), JoinLinks(lst))]

\* index of the first token tok in s, 0 if there is none
RECURSIVE FirstIndex(_, _, _)
FirstIndex(s, tok, k) ==
    IF k > Len(s) THEN 0
    ELSE IF s[k] = tok THEN k
    ELSE FirstIndex(s, tok, k + 1)

\* wiki_link without the test of line 597 for the language 'unknown'
wiki_link_unknown_emitted(ast, default_language) ==
    LET hash == FirstIndex(ast.target, "#", 1)
        lang == IF hash = 1
                THEN language_code(Strip(Tail(ast.target)))
                ELSE IF hash > 1
                THEN Or(language_code(Strip(SubSeq(ast.target, hash + 1, Len(ast.target)))),
                        S("unknown"))
                ELSE default_language
        tgt == IF hash = 1 THEN ast.text
               ELSE IF hash > 1 THEN SubSeq(ast.target, 1, hash - 1)
               ELSE ast.target
        links == IF ast.site # None THEN << >>
                 ELSE IF tgt # None
                 THEN << EdgeInfo(lang, Strip(tgt), None, None) >>
                 ELSE << >>
    IN  LinkedText(Or(ast.text, ast.target), links)

\* ConceptNetWiktionarySemantics.wiki_link
wiki_link(ast, default_language) ==
    LET hash == FirstIndex(ast.target, "#", 1)
        lang == IF hash = 1
                THEN language_code(Strip(Tail(ast.target)))
                ELSE IF hash > 1
                THEN Or(language_code(Strip(SubSeq(ast.target, hash + 1, Len(ast.target)))),
                        S("unknown"))
                ELSE default_language
        tgt == IF hash = 1 THEN ast.text
               ELSE IF hash > 1 THEN SubSeq(ast.target, 1, hash - 1)
               ELSE ast.target
        links == IF ast.site # None THEN << >>
                 ELSE IF tgt # None /\ lang # S("unknown")
                 THEN << EdgeInfo(lang, Strip(tgt), None, None) >>
                 ELSE << >>
    IN  LinkedText(Or(ast.text, ast.target), links)

\* the keys of a template's argument dict, in the order the model iterates them
ArgKeys == << S("1"), S("2"), S("3"), S("4"), S("lang"), S("lang1"), S("lang2") >>

IntKey(key) == CASE key = S("1") -> 1 [] key = S("2") -> 2 [] key = S("3") -> 3
                 [] key = S("4") -> 4 [] OTHER -> 0

KeyOfInt(n) == ArgKeys[n]

RECURSIVE ArgLinks(_, _)
\* the links of the argument values, collected by the loop at the top of link_template
ArgLinks(args, k) ==
    IF k > Len(ArgKeys) THEN << >>
    ELSE (IF ArgKeys[k] \in DOMAIN args THEN args[ArgKeys[k]].links ELSE << >>)
         \o ArgLinks(args, k + 1)

Max(a, b) == IF a >= b THEN a ELSE b

RECURSIVE MaxIntKey(_, _)
MaxIntKey(keys, k) ==
    IF k > Len(ArgKeys) THEN 0
    ELSE Max(IF ArgKeys[k] \in keys THEN IntKey(ArgKeys[k]) ELSE 0,
             MaxIntKey(keys, k + 1))

\* ConceptNetWiktionarySemantics.link_template
link_template(ast, default_language) ==
    LET \* args = defaultdict(lambda: None) filled with the texts of the values
        a0 == [key \in {ArgKeys[k] : k \in 1..Len(ArgKeys)} |->
                 IF key \in DOMAIN ast.args THEN ast.args[key].text ELSE None]
        links0 == ArgLinks(ast.args, 1)
        linktype == ast.linktype
        ok(text, links) == [raised |-> FALSE, value |-> LinkedText(text, links)]
        one(lang, tgt, relation) == << EdgeInfo(lang, tgt, None, relation) >>
    IN
    IF linktype = S("l") /\ ast.subtypes # << >> /\ Truthy(a0[S("1")])
    THEN ok(a0[S("1")], one(Strip(ast.subtypes[1]), a0[S("1")], None))
    ELSE IF linktype \in {S("l"), <<"term", "/", "t">>} /\ Truthy(a0[S("2")])
    THEN ok(Or(a0[S("3")], a0[S("2")]), one(a0[S("1")], a0[S("2")], None))
    ELSE IF linktype = S("term") /\ Truthy(a0[S("1")])
    THEN ok(Or(a0[S("2")], a0[S("1")]), one(a0[S("lang")], a0[S("1")], None))
    ELSE IF linktype = <<"ja", "-", "l">> /\ Truthy(a0[S("1")])
    THEN ok(a0[S("1")], one(S("ja"), a0[S("1")], None))
    ELSE IF linktype = <<"ko", "-", "inline">> /\ Truthy(a0[S("1")])
    THEN ok(a0[S("1")], one(S("ko"), a0[S("1")], None))
    ELSE IF linktype \in {<<"back", "-", "form">>, S("clipping"), <<"-", "er">>}
            /\ Truthy(a0[S("1")])
    THEN ok(<< >>, one(Or(a0[S("lang")], default_language), a0[S("1")],
                       S("DerivedFrom")))
    ELSE IF linktype = S("borrowing") /\ Truthy(a0[S("2")])
    THEN ok(<< >>, one(a0[S("1")], a0[S("2")], S("DerivedFrom")))
    ELSE IF linktype \in {S("blend"), S("calque"), S("compound"), S("confix"),
                          S("prefix"), S("suffix")}
    THEN LET lang == Or(a0[S("lang")], default_language)
             a1 == IF linktype \in {S("prefix"), S("confix")} /\ Truthy(a0[S("1")])
                   THEN [a0 EXCEPT ![S("1")] = @ \o S("-")] ELSE a0
             a2 == IF linktype = S("suffix") /\ Truthy(a1[S("2")])
                   THEN [a1 EXCEPT ![S("2")] = S("-") \o @] ELSE a1
             \* the int keys of the defaultdict: those given, and 1 (read above)
             lastarg == MaxIntKey((DOMAIN ast.args) \cup {S("1")}, 1)
             a3 == IF linktype = S("confix") /\ lastarg >= 2
                   THEN [a2 EXCEPT ![KeyOfInt(lastarg)] = S("-") \o @] ELSE a2
             emit(n) == IF Truthy(a3[KeyOfInt(n)])
                        THEN one(lang, a3[KeyOfInt(n)], S("DerivedFrom"))
                        ELSE << >>
         IN ok(<< >>, emit(1) \o emit(2) \o emit(3))
    ELSE IF linktype = S("etycomp") /\ Truthy(a0[S("2")])
    THEN LET lang1 == Or(a0[S("lang1")], default_language)
             lang2 == Or(a0[S("lang2")], Or(a0[S("lang1")], default_language))
         IN IF EdgeInfoRaises(a0[S("1")])
            THEN [raised |-> TRUE, value |-> LinkedText(<< >>, << >>)]
            ELSE ok(<< >>,
                    one(lang1, a0[S("1")], S("EtymologicallyDerivedFrom"))
                    \o one(lang2, a0[S("2")], S("EtymologicallyDerivedFrom")))
    ELSE ok(<< >>, links0)

\* ConceptNetWiktionarySemantics.etyl_template_and_link
etyl_template_and_link(ast, link) ==
    LinkedText(link.text,
               [k \in 1..Len(link.links) |->
                    set_language(link.links[k], Strip(ast.language))])

\* ConceptNetWiktionarySemantics.translation_template; None is << >> here
translation_template(ast) ==
    IF S("1") \notin DOMAIN ast.args THEN << >>
    ELSE << EdgeInfo(Strip(ast.language), ast.args[S("1")].text, None,
                     S("TranslationOf")) >>

(***************************************************************************)
(* Section handlers.  Each returns [raised, value].                        *)
(***************************************************************************)
Raised == [raised |-> TRUE, value |-> << >>]

Returned(v) == [raised |-> FALSE, value |-> v]

\* the value the grammar hands on for one node of running text: a wiki link
\* becomes a LinkedText, any template is parsed by the generic `template`
\* rule into a dict
WikitextItem(node, default_language) ==
    CASE node.kind = "wiki_link" -> PyLinked(wiki_link(node, default_language))
      [] node.kind = "text" -> PyStr(node.text)
      [] OTHER -> PyDict

\* ConceptNetWiktionarySemantics.wikitext (and its aliases)
wikitext(items, default_language) ==
    join_text([k \in 1..Len(items) |-> WikitextItem(items[k], default_language)])

\* the LinkedText of a link_template or wiki_link node
LinkOf(node, default_language) ==
    IF node.kind = "wiki_link"
    THEN Returned(wiki_link(node, default_language))
    ELSE link_template(node, default_language)

IsLink(node) == node.kind \in {"wiki_link", "link_template"}

\* sum(results, []): the lists the elements returned, joined; an exception
\* raised by an element propagates
SumOf(results) ==
    IF \E k \in 1..Len(results) : results[k].raised THEN Raised
    ELSE Returned(Flatten([k \in 1..Len(results) |-> results[k].value]))

\* sum([lt.links for lt in results], [])
SumOfLinks(results) ==
    IF \E k \in 1..Len(results) : results[k].raised THEN Raised
    ELSE Returned(Flatten([k \in 1..Len(results) |-> results[k].value.links]))

\* ConceptNetWiktionarySemantics.definition_section
definition_section(lines, default_language) ==
    SumOfLinks([k \in 1..Len(lines) |-> wikitext(lines[k].items, default_language)])

\* the LinkedTexts of the link nodes of a sequence of nodes
LinksOf(nodes, default_language) ==
    [k \in 1..Len(nodes) |-> LinkOf(nodes[k], default_language)]

\* link_entry, given the summed links of the entry: lines 918-929
link_entry_senses(line, links) ==
    IF links.raised THEN Raised
    ELSE IF line.sense # None
    THEN Returned([k \in 1..Len(links.value) |-> set_sense(links.value[k], line.sense)])
    ELSE links

\* ConceptNetWiktionarySemantics.link_entry
link_entry(line, default_language) ==
    link_entry_senses(line,
        SumOfLinks(LinksOf(SelectSeq(line.items, IsLink), default_language)))

\* ConceptNetWiktionarySemantics.link_section
link_section(lines, default_language) ==
    SumOf([k \in 1..Len(lines) |-> link_entry(lines[k], default_language)])

IsEtym(node) == node.kind \in {"etyl", "link_template"}

\* etyl_template_and_link applied to the link that follows the {{etyl}}
EtylOf(node, link) ==
    IF link.raised THEN link
    ELSE Returned(etyl_template_and_link(node, link.value))

\* one etym element of an etymology section
EtymOf(node, default_language) ==
    IF node.kind = "etyl"
    THEN EtylOf(node, LinkOf(node.link, default_language))
    ELSE link_template(node, default_language)

\* the LinkedTexts of the etym elements of a sequence of nodes
EtymsOf(nodes, default_language) ==
    [k \in 1..Len(nodes) |-> EtymOf(nodes[k], default_language)]

\* ConceptNetWiktionarySemantics.etymology_section
etymology_section(lines, default_language) ==
    SumOfLinks(EtymsOf(SelectSeq(Flatten([k \in 1..Len(lines) |-> lines[k].items]),
                                 IsEtym),
                       default_language))

IsTranslation(node) == node.kind = "translation_template"

\* ConceptNetWiktionarySemantics.translation_block (a line is one block)
translation_block(line) ==
    LET nodes == SelectSeq(line.items, IsTranslation)
        infos == Flatten([k \in 1..Len(nodes) |-> translation_template(nodes[k])])
    IN  [k \in 1..Len(infos) |-> set_sense(infos[k], line.sense)]

\* ConceptNetWiktionarySemantics.translation_section
translation_section(lines) ==
    Returned(Flatten([k \in 1..Len(lines) |-> translation_block(lines[k])]))

\* ConceptNetWiktionarySemantics.translation_section_de: to_german and
\* from_german return lists, so no item is an EdgeInfo and nothing is kept
translation_section_de(lines) == Returned(<< >>)

Digits == {"0", "1", "2", "3", "4", "5", "6", "7", "8", "9"}

Letters == {"a", "b", "c", "d", "e"}

isdigit(str) == str # << >> /\ \A k \in 1..Len(str) : str[k] \in Digits

isalpha(str) == str # << >> /\ \A k \in 1..Len(str) : str[k] \in Letters

RECURSIVE definition_section_de_loop(_, _, _, _, _, _)
\* the loop of definition_section_de from line k on
definition_section_de_loop(lines, k, links, sense, head_text, default_language) ==
    IF k > Len(lines) THEN Returned(links)
    ELSE
    LET item == lines[k]
        body == wikitext(item.items, default_language)
        digit == isdigit(item.num)
        alpha == ~digit /\ isalpha(item.num)
        pops == alpha /\ item.num = S("a")
        sense1 == IF digit THEN item.num ELSE sense
        links1 == IF pops /\ links # << >> THEN SubSeq(links, 1, Len(links) - 1) ELSE links
        head1 == IF pops /\ links # << >>
                 THEN LStripSet(links[Len(links)].text, {"(", ")", " "} \cup Digits) \o S(" ")
                 ELSE IF alpha THEN head_text
                 ELSE << >>
        curr_sense == IF digit THEN item.num
                      ELSE IF alpha /\ sense # None THEN sense \o item.num
                      ELSE sense
        line_text == S("(") \o curr_sense \o <<")", " ">> \o head1 \o body.value.text
    IN  IF body.raised THEN Raised
        ELSE IF pops /\ links = << >> THEN Raised      \* IndexError: pop from empty list
        ELSE IF ~digit /\ sense = None THEN Raised     \* TypeError: None + str
        ELSE definition_section_de_loop(lines, k + 1,
                 Append(links1, LinkedText(line_text, body.value.links)),
                 sense1, head1, default_language)

\* ConceptNetWiktionarySemantics.definition_section_de
definition_section_de(lines, default_language) ==
    definition_section_de_loop(lines, 1, << >>, None, << >>, default_language)

\* ConceptNetWiktionarySemantics.parse: run the grammar from the rule and
\* apply the semantics
parse(text, rule, default_language) ==
    IF text.fails THEN Raised
    ELSE CASE rule = S("definition_section") -> definition_section(text.lines, default_language)
           [] rule = S("link_section") -> link_section(text.lines, default_language)
           [] rule = S("etymology_section") -> etymology_section(text.lines, default_language)
           [] rule = S("translation_section") -> translation_section(text.lines)
           [] rule = S("translation_section_de") -> translation_section_de(text.lines)
           [] rule = S("definition_section_de") -> definition_section_de(text.lines, default_language)
           [] OTHER -> Raised

(***************************************************************************)
(* The section texts of the modelled entries, by name                      *)
(***************************************************************************)
Plain(str) == [kind |-> "text", text |-> str]

WikiLink(site, target, text) ==
    [kind |-> "wiki_link", site |-> site, target |-> target, text |-> text]

LinkTemplate(linktype, subtypes, args) ==
    [kind |-> "link_template", linktype |-> linktype, subtypes |-> subtypes,
     args |-> args]

Arg(str) == LinkedText(str, << >>)

Line(num, sense, items) == [num |-> num, sense |-> sense, items |-> items]

Text(lines) == [fails |-> FALSE, lines |-> lines]

\* "# A [[Hund]] or [[#Nolang|Hund]]\n"
TextHund ==
    Text(<< Line(None, None,
                 << Plain(S("A ")), WikiLink(None, S("Hund"), None), Plain(S(" or ")),
                    WikiLink(None, <<"#", "Nolang">>, S("Hund")) >>) >>)

\* "# to [[Bark]] like a [[w:Hund]]\n# a [[thing]]\n"
TextBark ==
    Text(<< Line(None, None,
                 << Plain(S("to ")), WikiLink(None, S("Bark"), None),
                    Plain(S(" like a ")), WikiLink(S("w"), S("Hund"), None) >>),
            Line(None, None,
                 << Plain(S("a ")), WikiLink(None, S("thing"), None) >>) >>)

\* "* {{l|en|mammal}}, {{term|beast}}\n"
TextMammal ==
    Text(<< Line(None, None,
                 << LinkTemplate(S("l"), << >>,
                                 S("1") :> Arg(S("en")) @@ S("2") :> Arg(S("mammal"))),
                    Plain(S(", ")),
                    LinkTemplate(S("term"), << >>, S("1") :> Arg(S("beast"))) >>) >>)

\* "{{compound|lang=en|black|bird}}\n"
TextCompound ==
    Text(<< Line(None, None,
                 << LinkTemplate(S("compound"), << >>,
                                 S("lang") :> Arg(S("en")) @@ S("1") :> Arg(S("black"))
                                 @@ S("2") :> Arg(S("bird"))) >>) >>)

\* ":[1] meaning one\n:a additional facet\n:[2] meaning two\n"
TextBedeutungen ==
    Text(<< Line(S("1"), None, << Plain(S("meaning one")) >>),
            Line(S("a"), None, << Plain(S("additional facet")) >>),
            Line(S("2"), None, << Plain(S("meaning two")) >>) >>)

\* "* [[Tier]]\n"
TextTier ==
    Text(<< Line(None, None, << WikiLink(None, S("Tier"), None) >>) >>)

\* a text the grammar rejects
TextBroken == [fails |-> TRUE, lines |-> << >>]

\* section['text'], by the name the model gives the text
TextOf(name) ==
    CASE name = "Hund" -> TextHund
      [] name = "Bark" -> TextBark
      [] name = "Mammal" -> TextMammal
      [] name = "Compound" -> TextCompound
      [] name = "Bedeutungen" -> TextBedeutungen
      [] name = "Tier" -> TextTier
      [] OTHER -> TextBroken

(***************************************************************************)
(* Title oracle                                                            *)
(***************************************************************************)
\* ConceptNetWiktionarySemantics.check_titledb
check_titledb(db, lang, title) == <<lang, Lower(title)>> \in db

RECURSIVE disambiguate_language(_, _, _)
\* ConceptNetWiktionarySemantics.disambiguate_language
disambiguate_language(db, options, title) ==
    IF options = << >> THEN None
    ELSE IF check_titledb(db, Head(options), title) THEN Head(options)
    ELSE disambiguate_language(db, Tail(options), title)

RECURSIVE disambiguate_queries(_, _, _)
\* the queries disambiguate_language sends to the title database
disambiguate_queries(db, options, title) ==
    IF options = << >> THEN << >>
    ELSE << [op |-> "query", lang |-> Head(options), title |-> Lower(title)] >>
         \o (IF check_titledb(db, Head(options), title) THEN << >>
             ELSE disambiguate_queries(db, Tail(options), title))

(***************************************************************************)
(* Entry walker.  An entry is [language, title, sections]; its section     *)
(* tree is flat: sections[i] = [heading, text, parent], parent = 0 for a   *)
(* top-level section, and structure['sections'] of a node is the list of   *)
(* its children in ascending order.                                        *)
(***************************************************************************)
RECURSIVE ChildrenFrom(_, _, _)
ChildrenFrom(secs, p, k) ==
    IF k > Len(secs) THEN << >>
    ELSE (IF secs[k].parent = p THEN <<k>> ELSE << >>) \o ChildrenFrom(secs, p, k + 1)

\* structure['sections'] of section p (of the entry when p = 0)
Children(secs, p) == ChildrenFrom(secs, p, 1)

\* the language options of a section: a tuple for definition sections,
\* otherwise the local variable is never assigned
LanguageBound(rule) == rule \in {S("definition_section"), S("definition_section_de")}

\* lines 335-345: the default language of each EdgeInfo
ResolveLanguages(edge_info, db, default_language, headlang) ==
    [k \in 1..Len(edge_info) |->
        set_default_language(edge_info[k],
            disambiguate_language(db, <<default_language, headlang>>,
                                  edge_info[k].target))]

\* lines 346-351: the edges of the section itself
CompleteEdges(edge_info, rule, headlang, headword, headpos) ==
    LET keep(ei) == ei.target \notin BAD_NAMES_FOR_THINGS /\ ei.language # None
        kept == SelectSeq(edge_info, keep)
    IN  [k \in 1..Len(kept) |-> complete_edge(kept[k], rule, headlang, headword, headpos)]

\* the head_pos of a section, lines 318-320; callers check headlang first
SectionPos(heading, headlang, headpos) ==
    IF heading \in DOMAIN POS_HEADINGS[headlang] /\ headpos = None
    THEN POS_HEADINGS[headlang][heading]
    ELSE headpos

\* lines 332-351: what the section does with the parser's result.
\* [raised, edges, trace]
OwnEdges(parsed, rule, relation, id, headlang, headword, headpos, default_language, db) ==
    LET stamped == IF relation # None
                   THEN [k \in 1..Len(parsed.value) |-> set_rel(parsed.value[k], relation)]
                   ELSE parsed.value
        queries == Flatten([k \in 1..Len(stamped) |->
                       disambiguate_queries(db, <<default_language, headlang>>,
                                            stamped[k].target)])
        resolved == ResolveLanguages(stamped, db, default_language, headlang)
        parse_event == << [op |-> "parse", id |-> id, rule |-> rule] >>
    IN  IF rule = None THEN [raised |-> FALSE, edges |-> << >>, trace |-> << >>]
        ELSE IF parsed.raised
        THEN [raised |-> TRUE, edges |-> << >>, trace |-> parse_event]
        ELSE IF \E k \in 1..Len(parsed.value) : ~IsEdgeInfo(parsed.value[k])
        THEN \* AttributeError: a LinkedText has no set_rel / set_default_language
             [raised |-> TRUE, edges |-> << >>, trace |-> parse_event]
        ELSE IF ~LanguageBound(rule)
        THEN \* UnboundLocalError: `language` is read at line 335
             [raised |-> TRUE, edges |-> << >>, trace |-> parse_event]
        ELSE [raised |-> FALSE,
              edges |-> CompleteEdges(resolved, rule, headlang, headword, headpos),
              trace |-> parse_event \o queries]

\* lines 322-331: the handler and relation of the heading, and the parse
OwnParsed(sec, id, rr, headlang, headword, headpos, default_language, db) ==
    OwnEdges(IF rr[1] = None THEN Returned(<< >>)
             ELSE parse(TextOf(sec.text), rr[1], default_language),
             rr[1], rr[2], id, headlang, headword, headpos, default_language, db)

\* lines 322-351: the section's own part.  [raised, edges, trace]
OwnPart(sec, id, headlang, headword, headpos, default_language, db) ==
    OwnParsed(sec, id, _get_rule_for_heading(default_language, sec.heading),
              headlang, headword, headpos, default_language, db)

\* a variant that puts the edges of the child sections before the section's own
SectionResultChildrenFirst(id, pos, own, sub) ==
    IF own.raised
    THEN [raised |-> TRUE, edges |-> << >>,
          trace |-> << [op |-> "section", id |-> id, pos |-> pos, raised |-> FALSE] >>
                    \o own.trace]
    ELSE [raised |-> sub.raised,
          edges |-> sub.edges \o own.edges,
          trace |-> << [op |-> "section", id |-> id, pos |-> pos, raised |-> FALSE] >>
                    \o own.trace \o sub.trace]

\* lines 346-359: the edges of the section, then those of its child sections;
\* an exception of the section's own part ends the call before the children
SectionResult(id, pos, own, sub) ==
    IF own.raised
    THEN [raised |-> TRUE, edges |-> << >>,
          trace |-> << [op |-> "section", id |-> id, pos |-> pos, raised |-> FALSE] >>
                    \o own.trace]
    ELSE [raised |-> sub.raised,
          edges |-> own.edges \o sub.edges,
          trace |-> << [op |-> "section", id |-> id, pos |-> pos, raised |-> FALSE] >>
                    \o own.trace \o sub.trace]

RECURSIVE parse_structured_section(_, _, _, _, _, _, _)
RECURSIVE WalkChildren(_, _, _, _, _, _, _)

RECURSIVE Sequel(_, _, _, _, _, _, _, _)

\* the loop over structure['sections'], lines 353-358
WalkChildren(secs, ids, headlang, headword, headpos, default_language, db) ==
    IF ids = << >> THEN [raised |-> FALSE, edges |-> << >>, trace |-> << >>]
    ELSE Sequel(parse_structured_section(secs, Head(ids), headlang, headword,
                                         headpos, default_language, db),
                secs, Tail(ids), headlang, headword, headpos, default_language, db)

\* the rest of the loop after one child section: an exception ends it
Sequel(first, secs, ids, headlang, headword, headpos, default_language, db) ==
    IF first.raised THEN first
    ELSE LET rest == WalkChildren(secs, ids, headlang, headword, headpos,
                                  default_language, db)
         IN [raised |-> rest.raised,
             edges |-> first.edges \o rest.edges,
             trace |-> first.trace \o rest.trace]

\* ConceptNetWiktionarySemantics.parse_structured_section
parse_structured_section(secs, id, headlang, headword, headpos, default_language, db) ==
    IF headlang \notin DOMAIN POS_HEADINGS
    THEN \* KeyError: POS_HEADINGS[headlang]
         [raised |-> TRUE, edges |-> << >>,
          trace |-> << [op |-> "section", id |-> id, pos |-> headpos, raised |-> TRUE] >>]
    ELSE
    LET pos == SectionPos(secs[id].heading, headlang, headpos)
    IN  SectionResult(id, pos,
            OwnPart(secs[id], id, headlang, headword, pos, default_language, db),
            WalkChildren(secs, Children(secs, id), headlang, headword, pos,
                         default_language, db))

(***************************************************************************)
(* Inputs: editions, entry languages and the sections of each edition      *)
(***************************************************************************)
MaxSections == 3

Editions == { S("en"), S("de"), S("fr") }

Languages ==
    { S("English"), S("German"), S("French"), S("Klingon") }
    \cup { SKIPPED_LANGUAGES[k] : k \in 1..Len(SKIPPED_LANGUAGES) }

TitleOf(lang) ==
    CASE lang = S("English") -> S("dog")
      [] lang = S("German") -> S("Hund")
      [] OTHER -> S("chat")

OracleKeys == { <<S("en"), S("hund")>>, <<S("de"), S("hund")>> }

Section(heading, text) == [heading |-> heading, text |-> text]

\* the sections an entry of each edition is built from
SectionPool(edition) ==
    CASE edition = S("en") ->
            { Section(S("Noun"), "Hund"),
              Section(S("Verb"), "Bark"),
              Section(S("Hypernyms"), "Mammal"),
              Section(S("Etymology"), "Compound"),
              Section(S("Pronunciation"), "Bark"),
              Section(S("Trivia"), "Broken") }
      [] edition = S("de") ->
            { Section(S("Bedeutungen"), "Bedeutungen"),
              Section(S("Substantiv"), "Hund"),
              Section(S("Verb"), "Bark"),
              Section(S("Oberbegriffe"), "Tier") }
      [] OTHER ->
            { Section(S("Noun"), "Hund"),
              Section(S("Verb"), "Broken") }

RECURSIVE OpenSections(_, _)
\* the sections a new section can be nested in: the last one and its ancestors
OpenSections(secs, id) ==
    IF id = 0 THEN {0} ELSE {id} \cup OpenSections(secs, secs[id].parent)

(***************************************************************************)
(* The state machine of parse_structured_entry                             *)
(***************************************************************************)
VARIABLES
    default_language,   \* self.default_language
    titledb,            \* the rows of the titles table: <<language, title>>
    structure,          \* the entry: [language, title, sections]
    pc,                 \* "read", "loop", "returned" or "AssertionError"
    idx,                \* position of the for loop in structure['sections']
    edges,              \* the local list edges; the result once returned
    failures,           \* the local counter failures
    trace,              \* sections entered, parser calls and oracle queries
    fn_args,            \* the arguments of a function called on its own
    fn_result           \* and what it returned

walker == <<default_language, titledb, structure, pc, idx, edges, failures, trace>>

functions == <<fn_args, fn_result>>

vars == <<walker, functions>>

Init ==
    /\ default_language \in Editions
    /\ titledb \in SUBSET OracleKeys
    /\ structure = [language |-> None, title |-> None, sections |-> << >>]
    /\ pc = "read"
    /\ idx = 0
    /\ edges = << >>
    /\ failures = 0
    /\ trace = << >>
    /\ fn_args = None
    /\ fn_result = None

\* The first-stage reader hands over the entry section by section, in the
\* order of the page; a section nests in the last section or an ancestor of it.
extract_section ==
    /\ pc = "read"
    /\ Len(structure.sections) < MaxSections
    /\ \E sec \in SectionPool(default_language),
          p \in OpenSections(structure.sections, Len(structure.sections)) :
          structure' = [structure EXCEPT !.sections =
                           Append(@, [heading |-> sec.heading, text |-> sec.text,
                                      parent |-> p])]
    /\ UNCHANGED <<default_language, titledb, pc, idx, edges, failures, trace>>
    /\ UNCHANGED functions

langcode == language_code(structure.language)

TopSections == Children(structure.sections, 0)

\* a variant that tests the first element of the list only
InSkippedFirst(lang) == SKIPPED_LANGUAGES[1] = lang

\* structure['language'] in SKIPPED_LANGUAGES
InSkipped(lang) == \E k \in 1..Len(SKIPPED_LANGUAGES) : SKIPPED_LANGUAGES[k] = lang

\* lines 261-268: the call, the early returns and the start of the loop
parse_structured_entry ==
    /\ pc = "read"
    /\ \E lang \in Languages :
          /\ structure' = [structure EXCEPT !.language = lang, !.title = TitleOf(lang)]
          /\ IF InSkipped(lang) \/ language_code(lang) = None
             THEN pc' = "returned" /\ idx' = idx
             ELSE pc' = "loop" /\ idx' = 1
    /\ edges' = << >>
    /\ failures' = 0
    /\ UNCHANGED <<default_language, titledb, trace>>
    /\ UNCHANGED functions

\* a variant that keeps the edges a failing top-level section had collected
parse_structured_entry_section_partial ==
    /\ pc = "loop"
    /\ idx <= Len(TopSections)
    /\ \E r \in { parse_structured_section(structure.sections, TopSections[idx],
                                           langcode, structure.title, None,
                                           default_language, titledb) } :
          /\ edges' = edges \o r.edges
          /\ failures' = IF r.raised THEN failures + 1 ELSE failures
          /\ trace' = trace \o r.trace
    /\ idx' = idx + 1
    /\ UNCHANGED <<default_language, titledb, structure, pc>>
    /\ UNCHANGED functions

\* lines 269-287: one iteration of the loop over the top-level sections
parse_structured_entry_section ==
    /\ pc = "loop"
    /\ idx <= Len(TopSections)
    /\ \E r \in { parse_structured_section(structure.sections, TopSections[idx],
                                           langcode, structure.title, None,
                                           default_language, titledb) } :
          /\ edges' = IF r.raised THEN edges ELSE edges \o r.edges
          /\ failures' = IF r.raised THEN failures + 1 ELSE failures
          /\ trace' = trace \o r.trace
    /\ idx' = idx + 1
    /\ UNCHANGED <<default_language, titledb, structure, pc>>
    /\ UNCHANGED functions

\* a variant that tolerates a second failing section
parse_structured_entry_return_lenient ==
    /\ pc = "loop"
    /\ idx > Len(TopSections)
    /\ pc' = IF failures <= 2 THEN "returned" ELSE "AssertionError"
    /\ UNCHANGED <<default_language, titledb, structure, idx, edges, failures, trace>>
    /\ UNCHANGED functions

\* lines 289-290: assert failures <= 1; return edges
parse_structured_entry_return ==
    /\ pc = "loop"
    /\ idx > Len(TopSections)
    /\ pc' = IF failures <= 1 THEN "returned" ELSE "AssertionError"
    /\ UNCHANGED <<default_language, titledb, structure, idx, edges, failures, trace>>
    /\ UNCHANGED functions

Next ==
    \/ extract_section
    \/ parse_structured_entry
    \/ parse_structured_entry_section
    \/ parse_structured_entry_return

Spec == Init /\ [][Next]_vars

(***************************************************************************)
(* Properties of the entry walker                                          *)
(***************************************************************************)
Finished == pc \in {"returned", "AssertionError"}

\* the entry's language is one of the three names the skip-list holds
SkipListed ==
    structure.language \in
        { S("Lojban"), S("Translingual"), <<"American", " ", "Sign", " ", "Language">> }

\* the entry's language has no language code
Unmapped == structure.language \notin DOMAIN ENGLISH_NAME_TO_CODE

\* the entry's language is mapped to a code and not skipped
Walked == Finished /\ ~SkipListed /\ ~Unmapped

RECURSIVE HeadPos(_, _, _)
\* the headpos parse_structured_section works with in section id: the
\* argument it is called with, updated by lines 318-320
HeadPos(secs, id, headlang) ==
    SectionPos(secs[id].heading, headlang,
               IF secs[id].parent = 0 THEN None
               ELSE HeadPos(secs, secs[id].parent, headlang))

\* parse_structured_section on the k-th top-level section of the entry
TopResult(k) ==
    parse_structured_section(structure.sections, TopSections[k], langcode,
                             structure.title, None, default_language, titledb)

FailingTop == { k \in 1..Len(TopSections) : TopResult(k).raised }

RECURSIVE EdgesOfTop(_)
\* the edges of the non-failing top-level sections from the k-th on
EdgesOfTop(k) ==
    IF k > Len(TopSections) THEN << >>
    ELSE (IF k \in FailingTop THEN << >> ELSE TopResult(k).edges) \o EdgesOfTop(k + 1)

\* C1: an entry of a mapped, not skipped language returns normally, with
\* exactly the edges of its non-failing top-level sections, when at most one
\* top-level section raises, and fails fatally when two or more raise.
C1_OneFailureTolerated ==
    Walked =>
        IF Cardinality(FailingTop) <= 1
        THEN pc = "returned" /\ edges = EdgesOfTop(1)
             /\ failures = Cardinality(FailingTop)
        ELSE pc = "AssertionError"

\* a returned entry whose one failing section is followed by a section
\* that contributed edges
C1_Witness ==
    /\ Walked
    /\ pc = "returned"
    /\ failures = 1
    /\ edges # << >>
    /\ \E a, b \in 1..Len(TopSections) :
          a < b /\ a \in FailingTop /\ b \notin FailingTop /\ TopResult(b).edges # << >>

\* C5: an entry in a skipped language, or in a language without a code,
\* returns the empty list; no section is entered or parsed and the title
\* database is not queried.
C5_SkippedEntryIsEmpty ==
    (pc # "read" /\ (SkipListed \/ Unmapped)) =>
        pc = "returned" /\ edges = << >> /\ trace = << >> /\ failures = 0

\* a skipped entry with nested sections and a non-empty title database
C5_Witness ==
    /\ pc = "returned"
    /\ structure.language = S("Translingual")
    /\ Len(structure.sections) >= 2
    /\ \E i \in 1..Len(structure.sections) : structure.sections[i].parent # 0
    /\ titledb # {}

RECURSIVE EdgesInOrder(_, _, _, _)
\* the edges of the EdgeInfos a handler returned, one after the other
EdgesInOrder(infos, rule, relation, pos) ==
    IF infos = << >> THEN << >>
    ELSE LET stamped == IF relation # None THEN set_rel(Head(infos), relation)
                        ELSE Head(infos)
             ei == set_default_language(stamped,
                       disambiguate_language(titledb, <<default_language, langcode>>,
                                             stamped.target))
         IN (IF ei.target \notin BAD_NAMES_FOR_THINGS /\ ei.language # None
             THEN << complete_edge(ei, rule, langcode, structure.title, pos) >>
             ELSE << >>)
            \o EdgesInOrder(Tail(infos), rule, relation, pos)

\* what section id of the entry contributes itself
SectionEdges(id) ==
    LET sec == structure.sections[id]
        rr == _get_rule_for_heading(default_language, sec.heading)
    IN  IF rr[1] = None THEN << >>
        ELSE EdgesInOrder(parse(TextOf(sec.text), rr[1], default_language).value,
                          rr[1], rr[2], HeadPos(structure.sections, id, langcode))

\* C4: the edges of an entry processed without a section failure are in
\* document order: section after section in the order of the page (a section
\* before its descendants, siblings as listed), and within a section in the
\* order of the EdgeInfos the handler returned.
C4_DocumentOrder ==
    (Walked /\ pc = "returned" /\ failures = 0) =>
        edges = Flatten([id \in 1..Len(structure.sections) |-> SectionEdges(id)])

\* a failure-free entry in which a section with a child is followed by a
\* sibling, all three contributing different edges
C4_Witness ==
    /\ Walked /\ pc = "returned" /\ failures = 0
    /\ Len(structure.sections) = 3
    /\ structure.sections[2].parent = 1
    /\ structure.sections[3].parent = 0
    /\ \A id \in 1..3 : Len(SectionEdges(id)) >= 1
    /\ SectionEdges(1) # SectionEdges(2)
    /\ SectionEdges(2) # SectionEdges(3)
    /\ Len(SectionEdges(1)) >= 2

\* the handler and the relation of section id of the entry
RuleOf(id) == _get_rule_for_heading(default_language, structure.sections[id].heading)

\* the section's own part, as the walker computes it
OwnOf(id) ==
    OwnPart(structure.sections[id], id, langcode, structure.title,
            HeadPos(structure.sections, id, langcode), default_language, titledb)

\* the sections the walker has entered so far
Entered == { trace[k].id : k \in { j \in 1..Len(trace) : trace[j].op = "section" } }

RECURSIVE DefaultedEdges(_, _, _, _)
\* the edges of a handler's EdgeInfos when a null language becomes head_lang
DefaultedEdges(infos, rule, relation, pos) ==
    IF infos = << >> THEN << >>
    ELSE LET stamped == IF relation # None THEN set_rel(Head(infos), relation)
                        ELSE Head(infos)
             ei == IF stamped.language = None THEN set_language(stamped, langcode)
                   ELSE stamped
         IN (IF ei.target \notin BAD_NAMES_FOR_THINGS /\ ei.language # None
             THEN << complete_edge(ei, rule, langcode, structure.title, pos) >>
             ELSE << >>)
            \o DefaultedEdges(Tail(infos), rule, relation, pos)

\* C2: a section whose heading dispatches to a handler other than the
\* definition handlers, and whose text the handler parses, completes without
\* raising, and its EdgeInfos with a null language get head_lang; the entry
\* "dog" with the one section Hypernyms "* {{l|en|mammal}}" gives /r/IsA
\* from /c/en/dog to /c/en/mammal.
C2_OtherSectionsComplete ==
    /\ \A id \in Entered :
          LET rule == RuleOf(id)[1]
              parsed == parse(TextOf(structure.sections[id].text), rule, default_language)
          IN (rule # None /\ ~LanguageBound(rule) /\ langcode \in DOMAIN POS_HEADINGS
                /\ ~parsed.raised)
             => /\ ~OwnOf(id).raised
                /\ OwnOf(id).edges =
                      DefaultedEdges(parsed.value, rule, RuleOf(id)[2],
                                     HeadPos(structure.sections, id, langcode))
    /\ (/\ pc = "returned" /\ default_language = S("en")
        /\ structure.language = S("English")
        /\ structure.sections = << [heading |-> S("Hypernyms"), text |-> "Mammal",
                                    parent |-> 0] >>)
       => /\ Len(edges) >= 1
          /\ edges[1].rel = join_uri(S("r"), S("IsA"))
          /\ edges[1].start = << S("c"), S("en"), S("dog") >>
          /\ edges[1].end = << S("c"), S("en"), S("mammal") >>

\* the language the title database gives a target when head_lang is asked first
OracleLanguage(target) ==
    IF <<langcode, Lower(target)>> \in titledb THEN langcode
    ELSE IF <<default_language, Lower(target)>> \in titledb THEN default_language
    ELSE None

RECURSIVE OracleEdges(_, _, _, _)
\* the edges of a definition section's EdgeInfos under OracleLanguage
OracleEdges(infos, rule, relation, pos) ==
    IF infos = << >> THEN << >>
    ELSE LET stamped == IF relation # None THEN set_rel(Head(infos), relation)
                        ELSE Head(infos)
             ei == set_language(stamped, OracleLanguage(stamped.target))
         IN (IF ei.target \notin BAD_NAMES_FOR_THINGS /\ ei.language # None
             THEN << complete_edge(ei, rule, langcode, structure.title, pos) >>
             ELSE << >>)
            \o OracleEdges(Tail(infos), rule, relation, pos)

C7_CompoundEtymology ==
    (/\ pc = "returned" /\ default_language = S("en")
     /\ structure.language = S("English")
     /\ structure.sections = << [heading |-> S("Etymology"), text |-> "Compound",
                                 parent |-> 0] >>)
    => /\ Len(edges) = 2
       /\ edges[1].rel = join_uri(S("r"), S("DerivedFrom"))
       /\ edges[2].rel = join_uri(S("r"), S("DerivedFrom"))
       /\ edges[1].end = << S("c"), S("en"), S("black") >>
       /\ edges[2].end = << S("c"), S("en"), S("bird") >>

\* C8: in the German edition the entry "Hund" whose one section is
\* Bedeutungen with the lines ":[1] ...", ":a ...", ":[2] ..." returns three
\* edges, one per line, and definition_section_de returns one item per line.
C8_BedeutungenSenses ==
    (/\ pc = "returned" /\ default_language = S("de")
     /\ structure.language = S("German")
     /\ structure.sections = << [heading |-> S("Bedeutungen"), text |-> "Bedeutungen",
                                 parent |-> 0] >>)
    => /\ Len(edges) = 3
       /\ Len(definition_section_de(TextOf("Bedeutungen").lines, default_language).value)
             = Len(TextOf("Bedeutungen").lines)

RECURSIVE EditionPos(_, _)
\* the POS code of the ancestor-or-self of section id nearest the root whose
\* heading is in the POS table of the edition, None if there is none
EditionPos(secs, id) ==
    LET above == IF secs[id].parent = 0 THEN None ELSE EditionPos(secs, secs[id].parent)
        table == IF default_language \in DOMAIN POS_HEADINGS
                 THEN POS_HEADINGS[default_language] ELSE << >>
    IN  IF above # None THEN above
        ELSE IF secs[id].heading \in DOMAIN table THEN table[secs[id].heading]
        ELSE None

\* C9: every section of an entry of a mapped language is entered with the
\* head_pos given by the POS table of the edition: that of the nearest-to-root
\* ancestor-or-self with a POS heading, or null.
C9_PosFromEditionTable ==
    \A k \in 1..Len(trace) :
        trace[k].op = "section" =>
            /\ ~trace[k].raised
            /\ trace[k].pos = EditionPos(structure.sections, trace[k].id)

(***************************************************************************)
(* EdgeInfo.complete_edge called on its own                                *)
(***************************************************************************)
NoEntry == [language |-> None, title |-> None, sections |-> << >>]

Relations ==
    { None, << >>, S("IsA"), <<"~", "IsA">>, <<"~", "DerivedFrom">>, S("~"),
      <<"~", "~", "IsA">>, S("RelatedTo"), S("TranslationOf") }

EdgeInfos ==
    [language : {S("en"), S("de")}, target : {S("dog"), S("Hund"), S("poodle")},
     sense : {None, S("1"), S("it")}, rel : Relations]

CompleteEdgeCalls ==
    [ei : EdgeInfos, rule_name : {S("link_section")}, headlang : {S("en"), S("de")},
     headword : {S("dog")}, headpos : {None, S("n")}]

InitEdge ==
    /\ default_language = S("en")
    /\ titledb = {}
    /\ structure = NoEntry
    /\ pc = "complete_edge"
    /\ idx = 0
    /\ edges = << >>
    /\ failures = 0
    /\ trace = << >>
    /\ fn_args \in CompleteEdgeCalls
    /\ fn_result = None

complete_edge_call ==
    /\ pc = "complete_edge"
    /\ fn_result' = complete_edge(fn_args.ei, fn_args.rule_name, fn_args.headlang,
                                  fn_args.headword, fn_args.headpos)
    /\ pc' = "complete_edge returned"
    /\ UNCHANGED <<default_language, titledb, structure, idx, edges, failures, trace,
                   fn_args>>

NextEdge == complete_edge_call

SpecEdge == InitEdge /\ [][NextEdge]_vars

\* the relation of the EdgeInfo begins with "~"
Inverted == fn_args.ei.rel # None /\ fn_args.ei.rel # << >> /\ fn_args.ei.rel[1] = "~"

TargetConcept == << S("c"), fn_args.ei.language, Lower(fn_args.ei.target) >>

IsHeadConcept(uri) ==
    /\ Len(uri) >= 3
    /\ SubSeq(uri, 1, 3) = << S("c"), fn_args.headlang, Lower(fn_args.headword) >>

\* C6: complete_edge strips the leading "~" of the relation and swaps the
\* endpoints (start is the target concept, end the head concept) exactly when
\* the relation begins with "~"; any other relation, a null one being
\* RelatedTo, keeps the head concept as start and the target concept as end.
C6_InversionSwapsEndpoints ==
    pc = "complete_edge returned" =>
        IF Inverted
        THEN /\ fn_result.rel = join_uri(S("r"), Tail(fn_args.ei.rel))
             /\ fn_result.start = TargetConcept
             /\ IsHeadConcept(fn_result.end)
        ELSE /\ fn_result.rel = join_uri(S("r"),
                                  IF fn_args.ei.rel \in {None, << >>} THEN S("RelatedTo")
                                  ELSE fn_args.ei.rel)
             /\ IsHeadConcept(fn_result.start)
             /\ fn_result.end = TargetConcept

\* an edge completed from "~IsA" whose two concepts differ
C6_Witness ==
    /\ pc = "complete_edge returned"
    /\ fn_args.ei.rel = <<"~", "IsA">>
    /\ fn_args.ei.target = S("poodle")
    /\ fn_result.start # fn_result.end
    /\ fn_result.rel = join_uri(S("r"), S("IsA"))

(***************************************************************************)
(* _get_rule_for_heading called on its own                                 *)
(***************************************************************************)
Headings ==
    UNION { DOMAIN RULES_AND_RELATIONS_MAP[e] : e \in DOMAIN RULES_AND_RELATIONS_MAP }
    \cup UNION { DOMAIN POS_HEADINGS[e] : e \in DOMAIN POS_HEADINGS }
    \cup { S("Etymology"), <<"Etymology", " ", "1">>, <<"Etymology", " ", "2">>,
           S("Etymologie"), <<"Alternative", " ", "forms">>, S("Trivia"), << >> }

InitRule ==
    /\ default_language \in Editions
    /\ titledb = {}
    /\ structure = NoEntry
    /\ pc = "_get_rule_for_heading"
    /\ idx = 0
    /\ edges = << >>
    /\ failures = 0
    /\ trace = << >>
    /\ fn_args \in Headings
    /\ fn_result = None

get_rule_for_heading_call ==
    /\ pc = "_get_rule_for_heading"
    /\ fn_result' = _get_rule_for_heading(default_language, fn_args)
    /\ pc' = "_get_rule_for_heading returned"
    /\ UNCHANGED <<default_language, titledb, structure, idx, edges, failures, trace,
                   fn_args>>

NextRule == get_rule_for_heading_call

SpecRule == InitRule /\ [][NextRule]_vars

\* C10: in every edition and for every heading, _get_rule_for_heading never
\* returns a non-null relation together with a null handler.
C10_NoRelationWithoutHandler ==
    pc = "_get_rule_for_heading returned" =>
        ~(fn_result[1] = None /\ fn_result[2] # None)

\* an unknown heading of the English edition, which gets the default pair
C10_Witness ==
    /\ pc = "_get_rule_for_heading returned"
    /\ default_language = S("en")
    /\ fn_args = S("Trivia")
    /\ fn_result[1] # None
    /\ fn_result[2] = None

\* the heading begins with the word Etymology
EtymologyHeading == fn_args # << >> /\ fn_args[1] = "Etymology"

\* C11: in the English edition a heading starting with 'Etymology' gives
\* (etymology_section, EtymologicallyDerivedFrom), a heading of the English
\* table its entry and any other heading (definition_section, null); in the
\* German edition a heading of the German table gives its entry and any other
\* heading (null, null); in every other edition every heading gives (null, null).
C11_Dispatch ==
    pc = "_get_rule_for_heading returned" =>
        CASE default_language = S("en") ->
                IF EtymologyHeading
                THEN fn_result = <<S("etymology_section"), S("EtymologicallyDerivedFrom")>>
                ELSE IF fn_args \in DOMAIN RULES_AND_RELATIONS_MAP[S("en")]
                THEN fn_result = RULES_AND_RELATIONS_MAP[S("en")][fn_args]
                ELSE fn_result = <<S("definition_section"), None>>
          [] default_language = S("de") ->
                IF fn_args \in DOMAIN RULES_AND_RELATIONS_MAP[S("de")]
                THEN fn_result = RULES_AND_RELATIONS_MAP[S("de")][fn_args]
                ELSE fn_result = <<None, None>>
          [] OTHER -> fn_result = <<None, None>>

\* a numbered Etymology heading of the English edition
C11_Witness ==
    /\ pc = "_get_rule_for_heading returned"
    /\ default_language = S("en")
    /\ fn_args = <<"Etymology", " ", "2">>
    /\ fn_result[1] = S("etymology_section")

(***************************************************************************)
(* The edges a section contributes itself                                  *)
(***************************************************************************)
\* an EdgeInfo of section id after the relation stamp and the resolution of
\* its default language: by the title database in a definition section, and
\* head_lang in any other section
ResolvedInfo(info, rule, relation) ==
    LET stamped == IF relation # None THEN set_rel(info, relation) ELSE info
    IN  IF LanguageBound(rule)
        THEN set_default_language(stamped,
                 disambiguate_language(titledb, <<default_language, langcode>>,
                                       stamped.target))
        ELSE set_default_language(stamped, langcode)

\* the EdgeInfo is neither blacklisted nor without a language
Qualifies(ei) == ei.target \notin BAD_NAMES_FOR_THINGS /\ ei.language # None

\* the qualifying EdgeInfos among those the handler returned, resolved
QualifyingInfos(values, rule, relation) ==
    LET infos == SelectSeq(values, IsEdgeInfo)
    IN  SelectSeq([k \in 1..Len(infos) |-> ResolvedInfo(infos[k], rule, relation)],
                  Qualifies)

\* C12: a section with a non-null handler contributes one edge for each
\* EdgeInfo the handler returned whose target is not blacklisted and whose
\* language is non-null after the resolution of the default language, each
\* completed with (handler name, head_lang, head_word, head_pos); no emitted
\* edge has a null language or a blacklisted target.
C12_OwnEdgesAreQualifyingInfos ==
    /\ \A id \in Entered :
          LET rule == RuleOf(id)[1]
              parsed == parse(TextOf(structure.sections[id].text), rule, default_language)
              kept == QualifyingInfos(parsed.value, rule, RuleOf(id)[2])
          IN (rule # None /\ langcode \in DOMAIN POS_HEADINGS /\ ~parsed.raised)
             => OwnOf(id).edges =
                   [k \in 1..Len(kept) |->
                       complete_edge(kept[k], rule, langcode, structure.title,
                                     HeadPos(structure.sections, id, langcode))]
    /\ \A k \in 1..Len(edges) :
          /\ edges[k].start[2] # None /\ edges[k].end[2] # None
          /\ edges[k].start[3] \notin BAD_NAMES_FOR_THINGS
          /\ edges[k].end[3] \notin BAD_NAMES_FOR_THINGS

(***************************************************************************)
(* EdgeInfo.set_default_language called on its own                         *)
(***************************************************************************)
\* the languages of an EdgeInfo: None, '', and two codes
InfoLanguages == {None, << >>, S("en"), S("de")}

SetDefaultLanguageCalls ==
    [ei : [language : InfoLanguages, target : {S("dog"), S("Hund"), S("it")},
           sense : {None, S("1")}, rel : {None, S("IsA"), <<"~", "IsA">>}],
     language : InfoLanguages]

InitSetDefault ==
    /\ default_language = S("en")
    /\ titledb = {}
    /\ structure = NoEntry
    /\ pc = "set_default_language"
    /\ idx = 0
    /\ edges = << >>
    /\ failures = 0
    /\ trace = << >>
    /\ fn_args \in SetDefaultLanguageCalls
    /\ fn_result = None

set_default_language_call ==
    /\ pc = "set_default_language"
    /\ fn_result' = set_default_language(fn_args.ei, fn_args.language)
    /\ pc' = "set_default_language returned"
    /\ UNCHANGED <<default_language, titledb, structure, idx, edges, failures, trace,
                   fn_args>>

NextSetDefault == set_default_language_call

SpecSetDefault == InitSetDefault /\ [][NextSetDefault]_vars

\* C13: set_default_language(L) returns an EdgeInfo equal to e in all four
\* fields when e.language is non-null, the empty string included, and e with
\* language L and the other three fields unchanged when e.language is null.
C13_DefaultOnlyFillsNull ==
    pc = "set_default_language returned" =>
        IF fn_args.ei.language # None
        THEN fn_result = fn_args.ei
        ELSE fn_result = [fn_args.ei EXCEPT !.language = fn_args.language]

(***************************************************************************)
(* Two entries in flight on one semantics object.  In this specification   *)
(* structure, pc, idx, edges and failures hold one value per entry: they   *)
(* are the argument and the local variables of one call of                 *)
(* parse_structured_entry each; default_language and titledb are the       *)
(* attributes of the object the two calls share.                           *)
(***************************************************************************)
Entry(language, title, sections) ==
    [language |-> language, title |-> title, sections |-> sections]

Sec(heading, text, parent) == [heading |-> heading, text |-> text, parent |-> parent]

\* the entries the two calls are given
SharedEntries ==
    { Entry(S("English"), S("dog"), << Sec(S("Noun"), "Hund", 0) >>),
      Entry(S("English"), S("dog"),
            << Sec(S("Noun"), "Hund", 0), Sec(S("Hypernyms"), "Mammal", 1),
               Sec(S("Verb"), "Bark", 0) >>),
      Entry(S("English"), S("dog"),
            << Sec(S("Hypernyms"), "Mammal", 0), Sec(S("Etymology"), "Compound", 0),
               Sec(S("Verb"), "Bark", 0) >>),
      Entry(S("German"), S("Hund"),
            << Sec(S("Substantiv"), "Hund", 0), Sec(S("Bedeutungen"), "Bedeutungen", 1) >>),
      Entry(S("German"), S("Hund"),
            << Sec(S("Pronunciation"), "Bark", 0), Sec(S("Noun"), "Hund", 1) >>),
      Entry(S("English"), S("dog"),
            << Sec(S("Etymology"), "Compound", 0), Sec(S("Noun"), "Hund", 0) >>),
      Entry(S("Lojban"), S("chat"), << Sec(S("Noun"), "Hund", 0) >>) }

Calls == {1, 2}

InitShared ==
    /\ default_language \in {S("en"), S("de")}
    /\ titledb \in SUBSET OracleKeys
    /\ structure \in [Calls -> SharedEntries]
    /\ pc = [w \in Calls |-> "read"]
    /\ idx = [w \in Calls |-> 0]
    /\ edges = [w \in Calls |-> << >>]
    /\ failures = [w \in Calls |-> 0]
    /\ trace = << >>
    /\ fn_args = None
    /\ fn_result = None

\* lines 260-268 of call w
entry_start(w) ==
    /\ pc[w] = "read"
    /\ IF InSkipped(structure[w].language) \/ language_code(structure[w].language) = None
       THEN pc' = [pc EXCEPT ![w] = "returned"] /\ idx' = idx
       ELSE pc' = [pc EXCEPT ![w] = "loop"] /\ idx' = [idx EXCEPT ![w] = 1]
    /\ edges' = [edges EXCEPT ![w] = << >>]
    /\ failures' = [failures EXCEPT ![w] = 0]
    /\ UNCHANGED <<default_language, titledb, structure, trace>>
    /\ UNCHANGED functions

\* a variant whose failure counter is an attribute of the semantics object,
\* counted up by every call in flight
entry_section_shared_failures(w) ==
    /\ pc[w] = "loop"
    /\ idx[w] <= Len(Children(structure[w].sections, 0))
    /\ \E r \in { parse_structured_section(structure[w].sections,
                      Children(structure[w].sections, 0)[idx[w]],
                      language_code(structure[w].language), structure[w].title, None,
                      default_language, titledb) } :
          /\ edges' = [edges EXCEPT ![w] = IF r.raised THEN @ ELSE @ \o r.edges]
          /\ failures' = [v \in Calls |-> IF r.raised THEN failures[v] + 1
                                          ELSE failures[v]]
    /\ idx' = [idx EXCEPT ![w] = @ + 1]
    /\ UNCHANGED <<default_language, titledb, structure, pc, trace>>
    /\ UNCHANGED functions

\* lines 269-287 of call w: one iteration of the loop
entry_section(w) ==
    /\ pc[w] = "loop"
    /\ idx[w] <= Len(Children(structure[w].sections, 0))
    /\ \E r \in { parse_structured_section(structure[w].sections,
                      Children(structure[w].sections, 0)[idx[w]],
                      language_code(structure[w].language), structure[w].title, None,
                      default_language, titledb) } :
          /\ edges' = [edges EXCEPT ![w] = IF r.raised THEN @ ELSE @ \o r.edges]
          /\ failures' = [failures EXCEPT ![w] = IF r.raised THEN @ + 1 ELSE @]
    /\ idx' = [idx EXCEPT ![w] = @ + 1]
    /\ UNCHANGED <<default_language, titledb, structure, pc, trace>>
    /\ UNCHANGED functions

\* lines 289-290 of call w
entry_return(w) ==
    /\ pc[w] = "loop"
    /\ idx[w] > Len(Children(structure[w].sections, 0))
    /\ pc' = [pc EXCEPT ![w] = IF failures[w] <= 1 THEN "returned" ELSE "AssertionError"]
    /\ UNCHANGED <<default_language, titledb, structure, idx, edges, failures, trace>>
    /\ UNCHANGED functions

NextShared ==
    \E w \in Calls :
        \/ entry_start(w)
        \/ entry_section(w)
        \/ entry_return(w)

SpecShared == InitShared /\ [][NextShared]_vars

\* the result of each top-level section of an entry processed on its own
AloneResults(entry) ==
    [k \in 1..Len(Children(entry.sections, 0)) |->
        parse_structured_section(entry.sections, Children(entry.sections, 0)[k],
                                 language_code(entry.language), entry.title, None,
                                 default_language, titledb)]

\* what the entry, the edition and the title database alone determine:
\* whether the call returns, and the edge list it returns
AloneOutcome(entry) ==
    IF entry.language \in { S("Lojban"), S("Translingual"),
                            <<"American", " ", "Sign", " ", "Language">> }
       \/ entry.language \notin DOMAIN ENGLISH_NAME_TO_CODE
    THEN [pc |-> "returned", edges |-> << >>]
    ELSE LET results == AloneResults(entry)
             good == SelectSeq(results, LAMBDA r : ~r.raised)
         IN IF Len(results) - Len(good) <= 1
            THEN [pc |-> "returned",
                  edges |-> Flatten([k \in 1..Len(good) |-> good[k].edges])]
            ELSE [pc |-> "AssertionError", edges |-> << >>]

\* every finished call has the outcome of its entry processed on its own
IndependentOutcome ==
    \A w \in Calls :
        pc[w] \in {"returned", "AssertionError"} =>
            /\ pc[w] = AloneOutcome(structure[w]).pc
            /\ pc[w] = "returned" => edges[w] = AloneOutcome(structure[w]).edges

\* C14: whatever the interleaving of two calls on one semantics object, each
\* returns the edge list its entry and the title database alone determine,
\* and no step changes the state that outlives an entry (the edition and the
\* title database of the object).
C14_EntriesIndependent ==
    /\ []IndependentOutcome
    /\ [][default_language' = default_language /\ titledb' = titledb]_vars

\* two calls that each had one failing section, both returned with edges
C14_Witness ==
    /\ \A w \in Calls : pc[w] = "returned" /\ failures[w] = 1 /\ edges[w] # << >>
    /\ structure[1] # structure[2]

(***************************************************************************)
(* link_template called on its own                                         *)
(***************************************************************************)
\* the link templates whose row needs one argument
RowTemplates ==
    { S("l"), S("term"), <<"term", "/", "t">>, <<"ja", "-", "l">>,
      <<"ko", "-", "inline">>, <<"back", "-", "form">>, S("clipping"),
      <<"-", "er">>, S("borrowing"), S("etycomp") }

\* an argument value: plain text, or text that holds a wiki link
ArgValues ==
    { Arg(S("Hund")),
      LinkedText(S("cat"), << EdgeInfo(S("en"), S("cat"), None, None) >>) }

\* the argument maps over the keys 1, 2 and lang
ArgMaps ==
    UNION { [keys -> ArgValues] : keys \in SUBSET {S("1"), S("2"), S("lang")} }

LinkTemplateCalls ==
    { LinkTemplate(linktype, subtypes, args) :
        linktype \in RowTemplates, subtypes \in {<< >>, << S("de") >>},
        args \in ArgMaps }

InitLink ==
    /\ default_language = S("en")
    /\ titledb = {}
    /\ structure = NoEntry
    /\ pc = "link_template"
    /\ idx = 0
    /\ edges = << >>
    /\ failures = 0
    /\ trace = << >>
    /\ fn_args \in LinkTemplateCalls
    /\ fn_result = None

link_template_call ==
    /\ pc = "link_template"
    /\ fn_result' = link_template(fn_args, default_language)
    /\ pc' = "link_template returned"
    /\ UNCHANGED <<default_language, titledb, structure, idx, edges, failures, trace,
                   fn_args>>

NextLink == link_template_call

SpecLink == InitLink /\ [][NextLink]_vars

\* the template lacks an argument its row needs
RequiredMissing ==
    LET has(key) == key \in DOMAIN fn_args.args
        t == fn_args.linktype
    IN  CASE t = S("l") ->
                IF fn_args.subtypes # << >> THEN ~has(S("1")) /\ ~has(S("2"))
                ELSE ~has(S("2"))
          [] t \in {<<"term", "/", "t">>, S("borrowing")} -> ~has(S("2"))
          [] t = S("etycomp") -> ~has(S("1")) \/ ~has(S("2"))
          [] OTHER -> ~has(S("1"))

\* C15: a link template that lacks an argument its row needs gives an empty
\* LinkedText, no text and no links, and does not raise; so also when the
\* arguments it has hold wiki links and when etycomp has argument 2 but not 1.
C15_MissingArgumentGivesEmpty ==
    (pc = "link_template returned" /\ RequiredMissing) =>
        /\ ~fn_result.raised
        /\ fn_result.value = LinkedText(<< >>, << >>)

(***************************************************************************)
(* sense_num.  A sense number is a string of one-character tokens, '12' is *)
(* <<"1", "2">> and '1a' is <<"1", "a">>.                                  *)
(***************************************************************************)
\* the characters of sense numbers in the order of their code points
CodePoints ==
    << "0", "1", "2", "3", "4", "5", "6", "7", "8", "9", "a", "b", "c", "d", "e" >>

\* the place of a character in the order of the code points: digits, then letters
CharRank(c) == CHOOSE k \in 1..Len(CodePoints) : CodePoints[k] = c

RECURSIVE IntOfStr(_)
\* int(s) of a string of digits; callers check isdigit first (ValueError)
IntOfStr(s) ==
    IF s = << >> THEN 0
    ELSE IntOfStr(SubSeq(s, 1, Len(s) - 1)) * 10 + (CharRank(s[Len(s)]) - 1)

RECURSIVE StrOfInt(_)
\* str(i) of a natural number
StrOfInt(i) ==
    IF i < 10 THEN << CodePoints[i + 1] >>
    ELSE StrOfInt(i \div 10) \o << CodePoints[(i % 10) + 1] >>

RECURSIVE StrLess(_, _)
\* a < b on strings: the order of the code points, a proper prefix first
StrLess(a, b) ==
    IF b = << >> THEN FALSE
    ELSE IF a = << >> THEN TRUE
    ELSE IF Head(a) # Head(b) THEN CharRank(Head(a)) < CharRank(Head(b))
    ELSE StrLess(Tail(a), Tail(b))

RECURSIVE InsertSorted(_, _)
InsertSorted(lst, x) ==
    IF lst = << >> THEN << x >>
    ELSE IF StrLess(x, Head(lst)) THEN << x >> \o lst
    ELSE << Head(lst) >> \o InsertSorted(Tail(lst), x)

RECURSIVE sorted(_)
\* sorted(list) of a list of strings
sorted(lst) ==
    IF lst = << >> THEN << >>
    ELSE InsertSorted(sorted(SubSeq(lst, 1, Len(lst) - 1)), lst[Len(lst)])

\* expand_range of sense_num, lines 508-511
expand_range(range_ast) ==
    IF ~isdigit(range_ast.range_start) \/ ~isdigit(range_ast.range_end)
    THEN Raised      \* ValueError: int() of a number with a letter
    ELSE Returned([i \in 1..(IntOfStr(range_ast.range_end)
                             - IntOfStr(range_ast.range_start) + 1) |->
                       StrOfInt(IntOfStr(range_ast.range_start) + i - 1)])

\* the loop over next_range, lines 521-523
ExpandRanges(ranges) == SumOf([k \in 1..Len(ranges) |-> expand_range(ranges[k])])

\* lines 513-525, given the expanded ranges; a list the parse did not fill
\* (ast['next'], ast['next_range']) is None, here a field the record lacks
sense_num_list(ast, expanded) ==
    IF Truthy(ast.last) THEN Returned(sorted(<< ast.first, ast.last >>))
    ELSE IF expanded.raised THEN Raised
    ELSE Returned(sorted(<< ast.first >>
                         \o (IF "next" \in DOMAIN ast THEN ast.next ELSE << >>)
                         \o expanded.value))

\* ConceptNetWiktionarySemantics.sense_num
sense_num(ast) ==
    sense_num_list(ast, IF "next_range" \in DOMAIN ast THEN ExpandRanges(ast.next_range)
                        ELSE Returned(<< >>))

\* the sense numbers of the modelled inputs
Nums == { <<"1">>, <<"2">>, <<"3">>, <<"1", "0">>, <<"2", "a">> }

\* the parses of the rule sense_num: a single number, the form with a last
\* number (dash, slash or plus sign), and the comma forms
SenseNumParses ==
    [first : Nums, last : {None}]
    \cup [first : Nums, last : Nums]
    \cup [first : Nums, last : {None},
          next : { <<a>> : a \in Nums } \cup { <<a, b>> : a, b \in Nums }]
    \cup [first : Nums, last : {None}, next_range : { <<r>> : r \in [range_start : Nums, range_end : Nums] }]
    \cup [first : Nums, last : {None}, next : { <<a>> : a \in Nums },
          next_range : { <<r>> : r \in [range_start : Nums, range_end : Nums] }]

InitSense ==
    /\ default_language = S("de")
    /\ titledb = {}
    /\ structure = NoEntry
    /\ pc = "sense_num"
    /\ idx = 0
    /\ edges = << >>
    /\ failures = 0
    /\ trace = << >>
    /\ fn_args \in SenseNumParses
    /\ fn_result = None

sense_num_call ==
    /\ pc = "sense_num"
    /\ fn_result' = sense_num(fn_args)
    /\ pc' = "sense_num returned"
    /\ UNCHANGED <<default_language, titledb, structure, idx, edges, failures, trace,
                   fn_args>>

NextSense == sense_num_call

SpecSense == InitSense /\ [][NextSense]_vars

\* how often x occurs in a list
Count(lst, x) == Cardinality({ k \in 1..Len(lst) : lst[k] = x })

\* two lists hold the same elements the same number of times
SameElements(a, b) ==
    /\ Len(a) = Len(b)
    /\ \A k \in 1..Len(a) : Count(a, a[k]) = Count(b, a[k])

\* the integers from a to b inclusive, as strings
Inclusive(a, b) ==
    [i \in 1..(IntOfStr(b) - IntOfStr(a) + 1) |-> StrOfInt(IntOfStr(a) + i - 1)]

\* every number of the parse is made of digits
AllDigits ==
    /\ isdigit(fn_args.first)
    /\ fn_args.last # None => isdigit(fn_args.last)
    /\ "next" \in DOMAIN fn_args => \A k \in 1..Len(fn_args.next) : isdigit(fn_args.next[k])
    /\ "next_range" \in DOMAIN fn_args =>
          \A k \in 1..Len(fn_args.next_range) :
              isdigit(fn_args.next_range[k].range_start)
              /\ isdigit(fn_args.next_range[k].range_end)

\* the numbers the claim lists for the parse: the dash form expanded, the
\* comma numbers appended, the comma ranges expanded
ClaimedNumbers ==
    IF fn_args.last # None THEN Inclusive(fn_args.first, fn_args.last)
    ELSE << fn_args.first >>
         \o (IF "next" \in DOMAIN fn_args THEN fn_args.next ELSE << >>)
         \o (IF "next_range" \in DOMAIN fn_args
             THEN Flatten([k \in 1..Len(fn_args.next_range) |->
                      Inclusive(fn_args.next_range[k].range_start,
                                fn_args.next_range[k].range_end)])
             ELSE << >>)

\* C16: sense_num expands the form 'a-b' (first a, last b) to every integer
\* from a to b inclusive, appends the comma-separated numbers and expands the
\* comma-separated ranges inclusively; '1-3' gives 1, 2, 3.
C16_RangesExpanded ==
    (pc = "sense_num returned" /\ AllDigits) =>
        /\ ~fn_result.raised
        /\ SameElements(fn_result.value, ClaimedNumbers)


\* the numbers written in the input string, in the order of the parse
WrittenNumbers ==
    << fn_args.first >>
    \o (IF fn_args.last # None THEN << fn_args.last >> ELSE << >>)
    \o (IF "next" \in DOMAIN fn_args THEN fn_args.next ELSE << >>)
    \o (IF "next_range" \in DOMAIN fn_args
        THEN Flatten([k \in 1..Len(fn_args.next_range) |->
                 << fn_args.next_range[k].range_start, fn_args.next_range[k].range_end >>])
        ELSE << >>)

\* C17: for every accepted input with one- or two-digit numbers the returned
\* list is sorted (here in the order of strings, the weakest reading) and holds
\* a sense number more than once only if the input string writes that number
\* more than once.
C17_SortedNoNewDuplicates ==
    (pc = "sense_num returned" /\ AllDigits) =>
        /\ ~fn_result.raised
        /\ \A k \in 1..(Len(fn_result.value) - 1) :
               ~StrLess(fn_result.value[k + 1], fn_result.value[k])
        /\ \A k \in 1..Len(fn_result.value) :
               Count(fn_result.value, fn_result.value[k]) > 1
                   => Count(WrittenNumbers, fn_result.value[k]) > 1


\* join_text with its first test (lines 213-214): the argument is None or a list
join_text_nullable(lst) ==
    IF lst.type = "None" THEN Returned(PyNone)
    ELSE IF join_text(lst.v).raised THEN Raised
    ELSE Returned(PyLinked(join_text(lst.v).value))

\* the longest list of the modelled calls
MaxItems == 2

\* the elements of the modelled lists: None, strings, LinkedTexts (the text of
\* an external link without a title is None, line 618), a template dict and a
\* value of another type
JoinItems ==
    << PyNone, PyStr(S("a")), PyStr(<< >>), PyDict, [type |-> "int"],
       PyLinked(LinkedText(S("b"), << EdgeInfo(S("en"), S("dog"), None, None) >>)),
       PyLinked(LinkedText(<< >>, << EdgeInfo(None, S("Hund"), None, None) >>)),
       PyLinked(LinkedText(None, << >>)) >>


InitJoin ==
    /\ default_language = S("en")
    /\ titledb = {}
    /\ structure = NoEntry
    /\ pc = "join_text"
    /\ idx = 0
    /\ edges = << >>
    /\ failures = 0
    /\ trace = << >>
    /\ \/ fn_args = PyNone
       \/ \E n \in 0..MaxItems : \E ix \in [1..n -> 1..Len(JoinItems)] :
              fn_args = [type |-> "list", v |-> [k \in 1..n |-> JoinItems[ix[k]]]]
    /\ fn_result = None

join_text_call ==
    /\ pc = "join_text"
    /\ fn_result' = join_text_nullable(fn_args)
    /\ pc' = "join_text returned"
    /\ UNCHANGED <<default_language, titledb, structure, idx, edges, failures, trace,
                   fn_args>>

NextJoin == join_text_call

SpecJoin == InitJoin /\ [][NextJoin]_vars

\* what the claim says an element contributes to the text and to the links
ClaimedText(item) ==
    CASE item.type = "str" -> item.v
      [] item.type = "LinkedText" -> item.v.text
      [] OTHER -> << >>

ClaimedLinks(item) == IF item.type = "LinkedText" THEN item.v.links ELSE << >>

\* the elements of the argument, none for a null list
JoinedItems == IF fn_args.type = "None" THEN << >> ELSE fn_args.v

OtherType(item) == item.type \notin {"None", "str", "LinkedText", "dict"}

\* C18: for every input list, a null list included, join_text returns a
\* LinkedText whose text is the concatenation in order of the string elements
\* and of the texts of the LinkedText elements and whose links are the
\* concatenation in order of the links of the LinkedText elements; None and
\* dict elements add nothing, an element of another type raises, and
\* join_text([lt]) has the text and links of lt.
C18_JoinText ==
    pc = "join_text returned" =>
        IF \E k \in 1..Len(JoinedItems) : OtherType(JoinedItems[k])
        THEN fn_result.raised
        ELSE /\ ~fn_result.raised
             /\ fn_result.value.type = "LinkedText"
             /\ fn_result.value.v.text =
                    Flatten([k \in 1..Len(JoinedItems) |-> ClaimedText(JoinedItems[k])])
             /\ fn_result.value.v.links =
                    Flatten([k \in 1..Len(JoinedItems) |-> ClaimedLinks(JoinedItems[k])])
             /\ (Len(JoinedItems) = 1 /\ JoinedItems[1].type = "LinkedText")
                    => fn_result.value.v = JoinedItems[1].v


\* the targets of the modelled wiki links: plain, a '#Language' reference to a
\* section of the page, 'target#Language', names without a code, blanks around
\* the parts and a second '#'
WikiLinkCalls ==
    { WikiLink(site, target, text) :
        site \in {None, S("w")},
        target \in
        { S("dog"), <<"#", "German">>, <<"#", "Klingon">>, <<"Hund", "#", "German">>,
          <<"Hund", "#", "Klingon">>, <<"Hund", " ", "#", " ", "German", " ">>,
          <<"#", " ", "German">>, <<"Hund", "#", "German", "#", "Noun">> },
        text \in {None, S("hound"), <<" ", "Hund">>} }

InitWikiLink ==
    /\ default_language \in {S("en"), S("de")}
    /\ titledb = {}
    /\ structure = NoEntry
    /\ pc = "wiki_link"
    /\ idx = 0
    /\ edges = << >>
    /\ failures = 0
    /\ trace = << >>
    /\ fn_args \in WikiLinkCalls
    /\ fn_result = None

wiki_link_call ==
    /\ pc = "wiki_link"
    /\ fn_result' = wiki_link(fn_args, default_language)
    /\ pc' = "wiki_link returned"
    /\ UNCHANGED <<default_language, titledb, structure, idx, edges, failures, trace,
                   fn_args>>

NextWikiLink == wiki_link_call

SpecWikiLink == InitWikiLink /\ [][NextWikiLink]_vars

\* the place of the first '#' in the target of the call, 0 without one
HashPlace ==
    IF \E k \in 1..Len(fn_args.target) : fn_args.target[k] = "#"
    THEN CHOOSE k \in 1..Len(fn_args.target) :
             /\ fn_args.target[k] = "#"
             /\ \A j \in 1..(k - 1) : fn_args.target[j] # "#"
    ELSE 0

\* the code of the language named after the first '#', None without a code
NamedCode ==
    language_code(Strip(SubSeq(fn_args.target, HashPlace + 1, Len(fn_args.target))))

\* the cases in which the claim says no EdgeInfo is emitted
NoEdgeInfoCase ==
    \/ fn_args.site # None
    \/ HashPlace > 1 /\ NamedCode = None
    \/ HashPlace = 1 /\ fn_args.text = None

\* C19: wiki_link emits no EdgeInfo when a site is present, when the target
\* holds '#' after its first character and the name after it has no language
\* code, or when the target is '#Language' without link text; in every other
\* case it emits exactly one EdgeInfo with a null relation whose language is
\* the code named after '#' when the target holds '#' and the default language
\* otherwise; the text of the result is always text-or-target.
C19_WikiLinkEdgeInfo ==
    pc = "wiki_link returned" =>
        /\ fn_result.text = (IF fn_args.text # None THEN fn_args.text ELSE fn_args.target)
        /\ IF NoEdgeInfoCase THEN fn_result.links = << >>
           ELSE /\ Len(fn_result.links) = 1
                /\ fn_result.links[1].rel = None
                /\ fn_result.links[1].language =
                       (IF HashPlace > 0 THEN NamedCode ELSE default_language)

\* a link 'Hund#German' in the English edition gave one EdgeInfo in German
C19_Witness ==
    /\ pc = "wiki_link returned"
    /\ default_language = S("en")
    /\ fn_args.site = None
    /\ fn_args.target = <<"Hund", "#", "German">>
    /\ Len(fn_result.links) = 1
    /\ fn_result.links[1].language = S("de")
    /\ fn_result.links[1].target = S("Hund")


\* the head_pos a child section works with when its parent works with pos
PosBelow(child, pos) ==
    IF pos # None THEN pos
    ELSE Get(POS_HEADINGS[langcode], structure.sections[child].heading, None)

\* the sections with a handler give their edges, the others none
EdgesOfHandled ==
    Flatten([id \in 1..Len(structure.sections) |->
                IF RuleOf(id)[1] = None THEN << >> ELSE SectionEdges(id)])

\* C20: a section whose heading dispatches to a null handler contributes no
\* edges of its own and is never parsed, yet each of its child sections is
\* still walked, with the head_pos (and head_lang, head_word) the section
\* works with, so the edges of its descendants are still emitted.
C20_NullHandlerSkipsOnlyItself ==
    /\ \A k \in 1..Len(trace) :
          (trace[k].op = "section" /\ RuleOf(trace[k].id)[1] = None) =>
              /\ ~trace[k].raised
              /\ ~\E j \in 1..Len(trace) :
                     trace[j].op = "parse" /\ trace[j].id = trace[k].id
              /\ \A c \in 1..Len(structure.sections) :
                     structure.sections[c].parent = trace[k].id =>
                         \E j \in (k + 1)..Len(trace) :
                             /\ trace[j].op = "section"
                             /\ trace[j].id = c
                             /\ ~trace[j].raised
                             /\ trace[j].pos = PosBelow(c, trace[k].pos)
    /\ (Walked /\ pc = "returned" /\ failures = 0) => edges = EdgesOfHandled


(***************************************************************************)
(* The entry walker with every title in the title database                 *)
(***************************************************************************)
InitContained == Init /\ titledb = OracleKeys

SpecContained == InitContained /\ [][Next]_vars

RECURSIVE TopOf(_)
\* the top-level section that section id is nested in (itself at the top)
TopOf(id) ==
    IF structure.sections[id].parent = 0 THEN id ELSE TopOf(structure.sections[id].parent)

\* the sections of the k-th top-level section, itself included
Nested(k) == { id \in 1..Len(structure.sections) : TopOf(id) = TopSections[k] }

\* section id raises in its own part when it is reached
RaisesItself(id) == langcode \notin DOMAIN POS_HEADINGS \/ OwnOf(id).raised

\* the sections of the entry that raise when reached, at any depth
Raising == { id \in 1..Len(structure.sections) : RaisesItself(id) }

\* the first section in page order of a set of sections
FirstOf(ids) == CHOOSE id \in ids : \A other \in ids : id <= other

\* the top-level sections attempted so far
Attempted == 1..(idx - 1)

\* the edges of the attempted top-level sections in which nothing raises
ContainedEdges(raising) ==
    Flatten([id \in 1..Len(structure.sections) |->
                IF \E k \in Attempted : id \in Nested(k) /\ Nested(k) \cap raising = {}
                THEN SectionEdges(id) ELSE << >>])

\* failures, edges and entered sections when the sections of `raising` raise
FailuresContained(raising) ==
    /\ failures = Cardinality({ k \in Attempted : Nested(k) \cap raising # {} })
    /\ edges = ContainedEdges(raising)
    /\ \A k \in Attempted :
          Entered \cap Nested(k) =
              IF Nested(k) \cap raising = {} THEN Nested(k)
              ELSE { id \in Nested(k) : id <= FirstOf(Nested(k) \cap raising) }
    /\ \A k \in 1..Len(TopSections) : k \notin Attempted => Entered \cap Nested(k) = {}

\* C21: failures are counted and contained per top-level section: when a
\* section nested at any depth raises, its top-level section contributes no
\* edge (what it and its earlier descendants collected is discarded, its later
\* descendants are not walked) and the counter grows by exactly one; the test
\* of the counter comes only after every top-level section was attempted.
C21_FailuresPerTopLevelSection ==
    (pc \in {"loop", "returned", "AssertionError"} /\ ~SkipListed /\ ~Unmapped) =>
        /\ FailuresContained(Raising)
        /\ pc # "loop" => idx = Len(TopSections) + 1
        /\ pc = "AssertionError" <=> (failures >= 2 /\ pc # "loop")

\* a returned entry whose top-level section gave edges itself before a
\* section nested in it raised, followed there by a section never walked
C21_Witness ==
    /\ pc = "returned" /\ ~SkipListed /\ ~Unmapped
    /\ failures = 1
    /\ edges = << >>
    /\ Len(structure.sections) = 3
    /\ Nested(1) = {1, 2, 3}
    /\ langcode \in DOMAIN POS_HEADINGS
    /\ SectionEdges(1) # << >>
    /\ Raising \cap Nested(1) = {2}
    /\ Entered = {1, 2}

====
